---- MODULE Spec2Model ----
(***************************************************************************)
(* A model of noctty (src/noctty.c): argument processing, the terminal     *)
(* report, the SIGHUP-protected TIOCNOTTY detachment, and the command      *)
(* runner / indefinite blocker.  One action per statement-level step of    *)
(* main and the functions it calls; the operating system's answers         *)
(* (results of sigaction, open, ioctl, system, sem_init, sem_wait) are     *)
(* inputs drawn with \E.                                                   *)
(***************************************************************************)
EXTENDS Integers, Sequences, FiniteSets

\* ------------------------------------------------------------------ bounds
\* Largest number of command-line arguments after argv[0].
MaxArgs == 3

\* ------------------------------------------------------- program constants
EXIT_SUCCESS == 0
EXIT_FAILURE == 1
SIGHUP == 1
\* The value sem_init gives the semaphore (third argument, line 122).
SemInitValue == 0

NULL == <<>>

\* ------------------------------------------------------------ command line
\* An argv element is a sequence of characters.
ProgName == <<"noctty">>
DashDash == <<"-", "-">>
Tokens ==
  { <<"-", "h">>, <<"-", "v">>, <<"-", "x">>, <<"-", "v", "h">>,
    DashDash, <<"c">>, <<"d">> }

\* The optstring given to getopt: "hv".
OptString == {"h", "v"}

\* All argument vectors with argv[0] = ProgName and at most MaxArgs more.
Argvs ==
  UNION { { a \in [0..n -> Tokens \cup {ProgName}] :
              /\ a[0] = ProgName
              /\ \A i \in 1..n : a[i] \in Tokens } : n \in 0..MaxArgs }

Argc(a) == Cardinality(DOMAIN a)

\* An element getopt scans for option characters: begins with '-', is longer
\* than "-" alone, and is not the "--" terminator.
IsOptElem(t) == Len(t) >= 2 /\ t[1] = "-" /\ t # DashDash

\* argv with the element at j moved down to position i (i <= j), the
\* elements i..j-1 shifted up by one: the permutation GNU getopt performs so
\* that the non-options it skipped follow the option it found.
Rotate(a, i, j) ==
  [k \in DOMAIN a |->
     IF k = i THEN a[j]
     ELSE IF k > i /\ k <= j THEN a[k - 1]
     ELSE a[k]]

\* One call of getopt(argc, argv, "hv").  nc = 0 means no option element is
\* being scanned; otherwise nc is the position in argv[oi] of the next option
\* character.  perm is GNU getopt's default argv permutation (off under
\* POSIXLY_CORRECT or a non-GNU libc).  The result is the returned character
\* ("-1" for the end of the options) and the new argv, optind and position.
getopt(a, oi, nc, perm) ==
  LET argc == Argc(a)
      Scan(b, i, n) ==
        LET ch == b[i][n]
            last == (n = Len(b[i]))
        IN [c |-> IF ch \in OptString THEN ch ELSE "?",
            argv |-> b,
            optind |-> IF last THEN i + 1 ELSE i,
            nextchar |-> IF last THEN 0 ELSE n + 1]
      End(b, i) == [c |-> "-1", argv |-> b, optind |-> i, nextchar |-> 0]
      Fetch(b) ==
        IF b[oi] = DashDash THEN End(b, oi + 1)
        ELSE IF ~IsOptElem(b[oi]) THEN End(b, oi)
        ELSE Scan(b, oi, 2)
  IN IF nc # 0 THEN Scan(a, oi, nc)
     ELSE IF oi >= argc THEN End(a, oi)
     ELSE IF perm /\ ~IsOptElem(a[oi]) /\ a[oi] # DashDash
       THEN LET J == { j \in (oi + 1)..(argc - 1) :
                         IsOptElem(a[j]) \/ a[j] = DashDash }
            IN IF J = {} THEN End(a, oi)
               ELSE LET j == CHOOSE m \in J : \A k \in J : m <= k
                    IN Fetch(Rotate(a, oi, j))
     ELSE Fetch(a)

\* ------------------------------------------------------------------ output
Line(fmt, arg) == [fmt |-> fmt, arg |-> arg]

\* print_help: the three lines it writes to the given stream.
print_help(stream, self) ==
  stream \o
  << Line("Usage: %s [-v] [COMMAND]\n", self),
     Line("Relinquish the controlling terminal. Optionally, run a command.\n", <<>>),
     Line("(Built from %s on %s.)\n", <<"__COMMIT__", "__DATE__">>) >>

\* The diagnostic getopt itself writes for a character not in optstring
\* (opterr is left at its default of 1).
GetoptDiag(self) == Line("%s: invalid option -- '%c'\n", self)

\* ------------------------------------------------------------- wait status
\* The int returned by system(): the wait-status encoding, or -1.
W_EXITCODE(ret, sig) == ret * 256 + sig
WIFEXITED(s) == (s % 128) = 0
WEXITSTATUS(s) == (s \div 256) % 256
WTERMSIG(s) == s % 128
WIFSIGNALED(s) == (s % 128) \in 1..126


\* Faulty variant: the signal number without the 128 offset.
run_given_command_result_NoOffset(s) ==
  IF WIFEXITED(s) THEN WEXITSTATUS(s) ELSE WTERMSIG(s)

\* What run_given_command returns for the status system(command) gave, when
\* the status is an exit or a termination by signal.
run_given_command_result(s) ==
  IF WIFEXITED(s) THEN WEXITSTATUS(s) ELSE 128 + WTERMSIG(s)

\* Statuses system("tty") can give: tty exits 0 (stdin is a terminal), 1 (it
\* is not), 2 (usage or write error), the shell exits 127 (tty not found), the
\* child is killed, or the child could not be created (-1).
TtyStatuses ==
  { W_EXITCODE(0, 0), W_EXITCODE(1, 0), W_EXITCODE(2, 0), W_EXITCODE(127, 0),
    W_EXITCODE(0, 9), -1 }

\* What the tty child writes to the standard output it inherits.
TtyOutput(s) ==
  IF s = W_EXITCODE(0, 0) THEN << Line("/dev/pts/N\n", <<>>) >>
  ELSE IF s = W_EXITCODE(1, 0) THEN << Line("not a tty\n", <<>>) >>
  ELSE << >>

\* Statuses system(command) can give: exit codes, terminations by signal
\* (with and without the core-dump bit), and -1 when no child was created.
CmdStatuses ==
  { W_EXITCODE(n, 0) : n \in {0, 7, 255} }
    \cup { W_EXITCODE(0, sig) : sig \in {SIGHUP, 9, 15, 126} }
    \cup { W_EXITCODE(0, 128 + 9) }
    \cup { -1 }

\* Signals from outside that end a process blocked in sem_wait.
KillSignals == {SIGHUP, 15}

\* ------------------------------------------------------------------- state
VARIABLES
  argv,            \* the argument vector (getopt may permute it)
  optind,          \* getopt's index of the next element
  nextchar,        \* getopt's position inside an option element, 0 if none
  permute,         \* whether this libc/environment permutes argv
  opts,            \* struct options: command (NULL if absent) and verbose
  pc,              \* the statement main (or a callee) is at
  term,            \* "running", "exited", "aborted" or "signaled"
  exitStatus,      \* the exit status once term = "exited", else -1
  termsig,         \* the signal once term = "signaled", else 0
  stdout,          \* lines written to standard output, in order
  stderr,          \* lines written to standard error, in order
  sighup,          \* the process's current SIGHUP disposition
  ctty,            \* "leader" / "member" of a session with a controlling
                   \* terminal, or "none"
  fds,             \* the open file descriptors of the process
  controlling_tty, \* the local of relinquish_controlling_tty; -2 before open
  sem,             \* the semaphore's value; -1 before sem_init
  status,          \* the last result of system(); -2 before any
  syscalls,        \* the system and library calls made so far, with results
  children,        \* what each spawned child inherited
  signals          \* signals delivered to the process from outside

vars ==
  << argv, optind, nextchar, permute, opts, pc, term, exitStatus, termsig,
     stdout, stderr, sighup, ctty, fds, controlling_tty, sem, status,
     syscalls, children, signals >>

Init ==
  /\ argv \in Argvs
  /\ optind = 1
  /\ nextchar = 0
  /\ permute \in BOOLEAN
  /\ opts = [command |-> NULL, verbose |-> FALSE]
  /\ pc = "process_args"
  /\ term = "running"
  /\ exitStatus = -1
  /\ termsig = 0
  /\ stdout = << >>
  /\ stderr = << >>
  /\ sighup \in {"SIG_DFL", "SIG_IGN"}
  /\ ctty \in {"leader", "member", "none"}
  /\ fds = {0, 1, 2}
  /\ controlling_tty = -2
  /\ sem = -1
  /\ status = -2
  /\ syscalls = << >>
  /\ children = << >>
  /\ signals = << >>

Call(name, arg, ret) == [call |-> name, arg |-> arg, ret |-> ret]

\* ------------------------------------------------------------- termination
\* exit(code): the process ends with the low eight bits of code.
Exit(code) ==
  /\ term' = "exited"
  /\ exitStatus' = code % 256
  /\ pc' = "done"
  /\ UNCHANGED termsig

\* bail: perror(msg), then exit(EXIT_FAILURE).
bail(msg) ==
  /\ stderr' = Append(stderr, Line("%s: %s\n", <<msg, "strerror(errno)">>))
  /\ Exit(EXIT_FAILURE)

\* A failed assert: the message on standard error, then abort().
AssertFail(expr) ==
  /\ stderr' = Append(stderr, Line("Assertion `%s' failed.\n", <<expr>>))
  /\ term' = "aborted"
  /\ pc' = "done"
  /\ UNCHANGED << exitStatus, termsig >>

\* ------------------------------------------------------------ process_args
\* Faulty variant: the positional-count test off by one.
TooManyPositionals_OffByOne(posargc) == posargc > 2

TooManyPositionals(posargc) == posargc >= 2

G == getopt(argv, optind, nextchar, permute)

TakeGetopt ==
  /\ argv' = G.argv
  /\ optind' = G.optind
  /\ nextchar' = G.nextchar

\* Faulty variant: case 'h' prints the help and breaks out of the switch
\* without exiting.
ProcessArgsH_NoExit ==
  /\ pc = "process_args"
  /\ G.c = "h"
  /\ TakeGetopt
  /\ stdout' = print_help(stdout, argv[0])
  /\ UNCHANGED << permute, opts, pc, term, exitStatus, termsig, stderr, sighup,
                  ctty, fds, controlling_tty, sem, status, syscalls, children,
                  signals >>

\* case 'h': help on standard output, exit(EXIT_SUCCESS).
ProcessArgsH ==
  /\ pc = "process_args"
  /\ G.c = "h"
  /\ TakeGetopt
  /\ stdout' = print_help(stdout, argv[0])
  /\ Exit(EXIT_SUCCESS)
  /\ UNCHANGED << permute, opts, stderr, sighup, ctty, fds, controlling_tty,
                  sem, status, syscalls, children, signals >>

\* Faulty variant: case 'v' lacks its break and falls through to the
\* exit(EXIT_FAILURE) of case '?'.
ProcessArgsV_FallsThrough ==
  /\ pc = "process_args"
  /\ G.c = "v"
  /\ TakeGetopt
  /\ opts' = [opts EXCEPT !.verbose = TRUE]
  /\ Exit(EXIT_FAILURE)
  /\ UNCHANGED << permute, stdout, stderr, sighup, ctty, fds, controlling_tty,
                  sem, status, syscalls, children, signals >>

\* case 'v': opts.verbose = true, and the loop goes on.
ProcessArgsV ==
  /\ pc = "process_args"
  /\ G.c = "v"
  /\ TakeGetopt
  /\ opts' = [opts EXCEPT !.verbose = TRUE]
  /\ UNCHANGED << permute, pc, term, exitStatus, termsig, stdout, stderr,
                  sighup, ctty, fds, controlling_tty, sem, status, syscalls,
                  children, signals >>

\* Faulty variant: case '?' breaks out of the switch without exiting.
ProcessArgsUnknown_Continue ==
  /\ pc = "process_args"
  /\ G.c = "?"
  /\ TakeGetopt
  /\ stderr' = Append(stderr, GetoptDiag(argv[0]))
  /\ UNCHANGED << permute, opts, pc, term, exitStatus, termsig, stdout, sighup,
                  ctty, fds, controlling_tty, sem, status, syscalls, children,
                  signals >>

\* case '?': getopt has written its diagnostic; exit(EXIT_FAILURE).
ProcessArgsUnknown ==
  /\ pc = "process_args"
  /\ G.c = "?"
  /\ TakeGetopt
  /\ stderr' = Append(stderr, GetoptDiag(argv[0]))
  /\ Exit(EXIT_FAILURE)
  /\ UNCHANGED << permute, opts, stdout, sighup, ctty, fds, controlling_tty,
                  sem, status, syscalls, children, signals >>

\* After the loop: opts.command from the first positional argument.
PositionalCommand(a, oi) == IF Argc(a) - oi >= 1 THEN a[oi] ELSE NULL

\* Faulty variant: the positional arguments are counted before the options
\* are scanned, so two or more plain words are rejected at once.
ProcessArgsInvalid_BeforeOptions ==
  /\ pc = "process_args"
  /\ optind = 1
  /\ nextchar = 0
  /\ TooManyPositionals(Cardinality({ i \in 1..(Argc(argv) - 1) : argv[i][1] # "-" }))
  /\ opts' = [opts EXCEPT !.command = NULL]
  /\ stderr' = print_help(stderr \o << Line("error: invalid arguments\n", <<>>),
                                      Line("\n", <<>>) >>, argv[0])
  /\ Exit(EXIT_FAILURE)
  /\ UNCHANGED << argv, optind, nextchar, permute, stdout, sighup, ctty, fds,
                  controlling_tty, sem, status, syscalls, children, signals >>

\* Two or more positional arguments: the error and the usage on standard
\* error, exit(EXIT_FAILURE).
ProcessArgsInvalid ==
  /\ pc = "process_args"
  /\ G.c = "-1"
  /\ TooManyPositionals(Argc(G.argv) - G.optind)
  /\ TakeGetopt
  /\ opts' = [opts EXCEPT !.command = PositionalCommand(G.argv, G.optind)]
  /\ stderr' = print_help(stderr \o << Line("error: invalid arguments\n", <<>>),
                                      Line("\n", <<>>) >>, argv[0])
  /\ Exit(EXIT_FAILURE)
  /\ UNCHANGED << permute, stdout, sighup, ctty, fds, controlling_tty, sem,
                  status, syscalls, children, signals >>

\* At most one positional argument: process_args returns opts to main.
ProcessArgsReturn ==
  /\ pc = "process_args"
  /\ G.c = "-1"
  /\ ~TooManyPositionals(Argc(G.argv) - G.optind)
  /\ TakeGetopt
  /\ opts' = [opts EXCEPT !.command = PositionalCommand(G.argv, G.optind)]
  /\ pc' = "print_tty"
  /\ UNCHANGED << permute, term, exitStatus, termsig, stdout, stderr, sighup,
                  ctty, fds, controlling_tty, sem, status, syscalls, children,
                  signals >>

\* --------------------------------------------------------------- print_tty
\* Faulty variant: the macro without its test of verbose.
verbose_print_Always(verbose, stream, msg) == Append(stream, Line(msg, <<>>))

\* The verbose_print macro: printf and fflush when verbose, else nothing.
verbose_print(verbose, stream, msg) ==
  IF verbose THEN Append(stream, Line(msg, <<>>)) ELSE stream

\* What a child created by system() inherits from the process.
Child(stage, command) ==
  [stage |-> stage, command |-> command, fds |-> fds, sighup |-> sighup,
   ctty |-> ctty]

\* A child exists unless system() returned -1.
Spawn(stage, command, s) ==
  IF s = -1 THEN children ELSE Append(children, Child(stage, command))

PrintTtyHeader ==
  /\ pc = "print_tty"
  /\ stdout' = verbose_print(opts.verbose, stdout, "Terminal is:\n")
  /\ pc' = "print_tty_system"
  /\ UNCHANGED << argv, optind, nextchar, permute, opts, term, exitStatus,
                  termsig, stderr, sighup, ctty, fds, controlling_tty, sem,
                  status, syscalls, children, signals >>

\* system("tty"): the child writes to the inherited standard output.
PrintTtySystem ==
  /\ pc = "print_tty_system"
  /\ \E s \in TtyStatuses :
       /\ status' = s
       /\ stdout' = stdout \o TtyOutput(s)
       /\ children' = Spawn("print_tty", <<"tty">>, s)
       /\ syscalls' = Append(syscalls, Call("system", "tty", s))
  /\ pc' = "print_tty_assert"
  /\ UNCHANGED << argv, optind, nextchar, permute, opts, term, exitStatus,
                  termsig, stderr, sighup, ctty, fds, controlling_tty, sem,
                  signals >>

\* Faulty variant: the two asserts do not test the status.
TtySucceeded_Unchecked(s) == TRUE

TtySucceeded(s) == WIFEXITED(s) /\ WEXITSTATUS(s) = 0

\* One of the two asserts of print_tty fails.
PrintTtyAssertFail ==
  /\ pc = "print_tty_assert"
  /\ ~TtySucceeded(status)
  /\ AssertFail(IF WIFEXITED(status) THEN "WEXITSTATUS(status) == 0"
                ELSE "WIFEXITED(status)")
  /\ UNCHANGED << argv, optind, nextchar, permute, opts, stdout, sighup, ctty,
                  fds, controlling_tty, sem, status, syscalls, children,
                  signals >>

\* Both asserts hold: the separator, and print_tty returns.
PrintTtySeparator ==
  /\ pc = "print_tty_assert"
  /\ TtySucceeded(status)
  /\ stdout' = verbose_print(opts.verbose, stdout,
       "------------------------------------------------------------\n\n")
  /\ pc' = "relinquish"
  /\ UNCHANGED << argv, optind, nextchar, permute, opts, term, exitStatus,
                  termsig, stderr, sighup, ctty, fds, controlling_tty, sem,
                  status, syscalls, children, signals >>

\* ---------------------------------------------- relinquish_controlling_tty
\* sighup_action: sigaction(SIGHUP, action); bail when it fails.  next is
\* the statement after the call.
sighup_action(action, next) ==
  \E r \in {0, -1} :
    /\ syscalls' = Append(syscalls, Call("sigaction", action, r))
    /\ IF r # 0
         THEN /\ bail("sigaction error")
              /\ UNCHANGED sighup
         ELSE /\ sighup' = action
              /\ pc' = next
              /\ UNCHANGED << term, exitStatus, termsig, stderr >>

\* Faulty variant: the first call installs SIG_DFL instead of SIG_IGN.
RelinquishIgnore_Default ==
  /\ pc = "relinquish"
  /\ sighup_action("SIG_DFL", "open")
  /\ UNCHANGED << argv, optind, nextchar, permute, opts, stdout, ctty, fds,
                  controlling_tty, sem, status, children, signals >>

\* sighup_action(SIG_IGN), line 83.
RelinquishIgnore ==
  /\ pc = "relinquish"
  /\ sighup_action("SIG_IGN", "open")
  /\ UNCHANGED << argv, optind, nextchar, permute, opts, stdout, ctty, fds,
                  controlling_tty, sem, status, children, signals >>

\* The descriptor open() returns: the lowest one not in use.
LowestFree(used) == CHOOSE n \in 0..Cardinality(used) :
                      n \notin used /\ \A m \in 0..(n - 1) : m \in used

\* open("/dev/tty", O_RDWR | O_NOCTTY): fails without a controlling
\* terminal (ENXIO), and may fail for other reasons (EMFILE, ...).
RelinquishOpen ==
  /\ pc = "open"
  /\ \E ok \in (IF ctty = "none" THEN {FALSE} ELSE BOOLEAN) :
       LET fd == IF ok THEN LowestFree(fds) ELSE -1
       IN /\ controlling_tty' = fd
          /\ syscalls' = Append(syscalls, Call("open", "/dev/tty", fd))
          /\ IF fd = -1
               THEN /\ bail("error opening /dev/tty")
                    /\ UNCHANGED fds
               ELSE /\ fds' = fds \cup {fd}
                    /\ pc' = "ioctl"
                    /\ UNCHANGED << term, exitStatus, termsig, stderr >>
  /\ UNCHANGED << argv, optind, nextchar, permute, opts, stdout, sighup, ctty,
                  sem, status, children, signals >>

\* Faulty variant: the result of ioctl is not tested.
ioctl_failed_Never(r) == FALSE

\* The test of ioctl's result, line 92.
ioctl_failed(r) == r = -1

\* ioctl(controlling_tty, TIOCNOTTY).  On success the process has no
\* controlling terminal, and when it was the session leader the kernel sends
\* SIGHUP to the foreground process group: the process is terminated unless
\* it ignores the signal.
RelinquishIoctl ==
  /\ pc = "ioctl"
  /\ \E r \in {0, -1} :
       /\ syscalls' = Append(syscalls, Call("ioctl", "TIOCNOTTY", r))
       /\ ctty' = IF r = 0 THEN "none" ELSE ctty
       /\ IF r = 0 /\ ctty = "leader" /\ sighup = "SIG_DFL"
            THEN /\ term' = "signaled"
                 /\ termsig' = SIGHUP
                 /\ pc' = "done"
                 /\ UNCHANGED << exitStatus, stderr >>
            ELSE IF ioctl_failed(r)
              THEN bail("ioctl error")
              ELSE /\ pc' = "restore"
                   /\ UNCHANGED << term, exitStatus, termsig, stderr >>
  /\ UNCHANGED << argv, optind, nextchar, permute, opts, stdout, sighup, fds,
                  controlling_tty, sem, status, children, signals >>

\* Faulty variant: the disposition is not restored.
RelinquishRestore_Skipped ==
  /\ pc = "restore"
  /\ pc' = "main_branch"
  /\ UNCHANGED << argv, optind, nextchar, permute, opts, term, exitStatus,
                  termsig, stdout, stderr, sighup, ctty, fds, controlling_tty,
                  sem, status, syscalls, children, signals >>

\* sighup_action(SIG_DFL), line 96; relinquish_controlling_tty returns.
RelinquishRestore ==
  /\ pc = "restore"
  /\ sighup_action("SIG_DFL", "main_branch")
  /\ UNCHANGED << argv, optind, nextchar, permute, opts, stdout, ctty, fds,
                  controlling_tty, sem, status, children, signals >>

\* ------------------------------------------------------- run_given_command
\* Faulty variant: main runs the command before relinquish_controlling_tty.
RunSystem_BeforeDetach ==
  /\ pc = "relinquish"
  /\ opts.command # NULL
  /\ \E s \in CmdStatuses :
       /\ status' = s
       /\ children' = Spawn("run_given_command", opts.command, s)
       /\ syscalls' = Append(syscalls, Call("system", "COMMAND", s))
  /\ pc' = "run_result"
  /\ UNCHANGED << argv, optind, nextchar, permute, opts, term, exitStatus,
                  termsig, stdout, stderr, sighup, ctty, fds, controlling_tty,
                  sem, signals >>

\* system(command), reached when opts.command is not NULL.
RunSystem ==
  /\ pc = "main_branch"
  /\ opts.command # NULL
  /\ \E s \in CmdStatuses :
       /\ status' = s
       /\ children' = Spawn("run_given_command", opts.command, s)
       /\ syscalls' = Append(syscalls, Call("system", "COMMAND", s))
  /\ pc' = "run_result"
  /\ UNCHANGED << argv, optind, nextchar, permute, opts, term, exitStatus,
                  termsig, stdout, stderr, sighup, ctty, fds, controlling_tty,
                  sem, signals >>

\* The status is an exit or a signal: main returns the mapped value.
RunReturn ==
  /\ pc = "run_result"
  /\ WIFEXITED(status) \/ WIFSIGNALED(status)
  /\ Exit(run_given_command_result(status))
  /\ UNCHANGED << argv, optind, nextchar, permute, opts, stdout, stderr,
                  sighup, ctty, fds, controlling_tty, sem, status, syscalls,
                  children, signals >>

\* Faulty variant: the assert does nothing and the function returns -1.
RunAssertFail_ReturnsMinusOne ==
  /\ pc = "run_result"
  /\ ~(WIFEXITED(status) \/ WIFSIGNALED(status))
  /\ Exit(-1)
  /\ UNCHANGED << argv, optind, nextchar, permute, opts, stdout, stderr,
                  sighup, ctty, fds, controlling_tty, sem, status, syscalls,
                  children, signals >>

\* Any other status: assert(false).
RunAssertFail ==
  /\ pc = "run_result"
  /\ ~(WIFEXITED(status) \/ WIFSIGNALED(status))
  /\ AssertFail("false")
  /\ UNCHANGED << argv, optind, nextchar, permute, opts, stdout, sighup, ctty,
                  fds, controlling_tty, sem, status, syscalls, children,
                  signals >>

\* ----------------------------------------------------------- block_forever
\* sem_init(&sem, false, 0), reached when opts.command is NULL.
BlockSemInit ==
  /\ pc = "main_branch"
  /\ opts.command = NULL
  /\ \E r \in {0, -1} :
       /\ syscalls' = Append(syscalls, Call("sem_init", "0", r))
       /\ IF r # 0
            THEN /\ bail("sem_init error")
                 /\ UNCHANGED sem
            ELSE /\ sem' = SemInitValue
                 /\ pc' = "sem_wait"
                 /\ UNCHANGED << term, exitStatus, termsig, stderr >>
  /\ UNCHANGED << argv, optind, nextchar, permute, opts, stdout, sighup, ctty,
                  fds, controlling_tty, status, children, signals >>

\* Faulty variant: the wait returns at once whatever the value.
BlockSemWait_Returns ==
  /\ pc = "sem_wait"
  /\ syscalls' = Append(syscalls, Call("sem_wait", "sem", 0))
  /\ Exit(0)
  /\ UNCHANGED << argv, optind, nextchar, permute, opts, stdout, stderr,
                  sighup, ctty, fds, controlling_tty, sem, status, children,
                  signals >>

\* sem_wait(&sem): with a positive value it decrements and returns 0,
\* block_forever returns and main runs off its end (exit status 0); with the
\* value 0 the process blocks.
BlockSemWait ==
  /\ pc = "sem_wait"
  /\ IF sem > 0
       THEN /\ sem' = sem - 1
            /\ syscalls' = Append(syscalls, Call("sem_wait", "sem", 0))
            /\ Exit(0)
       ELSE /\ pc' = "blocked"
            /\ UNCHANGED << sem, syscalls, term, exitStatus, termsig >>
  /\ UNCHANGED << argv, optind, nextchar, permute, opts, stdout, stderr,
                  sighup, ctty, fds, controlling_tty, status, children,
                  signals >>

\* Faulty variant: an interrupted sem_wait is called again.
BlockInterrupted_Retries ==
  /\ pc = "blocked"
  /\ signals' = Append(signals, 0)
  /\ syscalls' = Append(syscalls, Call("sem_wait", "sem", -1))
  /\ pc' = "sem_wait"
  /\ UNCHANGED << argv, optind, nextchar, permute, opts, term, exitStatus,
                  termsig, stdout, stderr, sighup, ctty, fds, controlling_tty,
                  sem, status, children >>

\* A signal from outside interrupts the blocked sem_wait, which returns -1
\* (EINTR): bail.
BlockInterrupted ==
  /\ pc = "blocked"
  /\ signals' = Append(signals, 0)
  /\ syscalls' = Append(syscalls, Call("sem_wait", "sem", -1))
  /\ bail("sem_wait error")
  /\ UNCHANGED << argv, optind, nextchar, permute, opts, stdout, sighup, ctty,
                  fds, controlling_tty, sem, status, children >>

\* A signal from outside whose disposition is to terminate ends the blocked
\* process.
BlockKilled ==
  /\ pc = "blocked"
  /\ \E sig \in KillSignals :
       /\ sig = SIGHUP => sighup = "SIG_DFL"
       /\ signals' = Append(signals, sig)
       /\ termsig' = sig
  /\ term' = "signaled"
  /\ pc' = "done"
  /\ UNCHANGED << argv, optind, nextchar, permute, opts, exitStatus, stdout,
                  stderr, sighup, ctty, fds, controlling_tty, sem, status,
                  syscalls, children >>

\* ----------------------------------------------------------- specification
Next ==
  \/ ProcessArgsH
  \/ ProcessArgsV
  \/ ProcessArgsUnknown
  \/ ProcessArgsInvalid
  \/ ProcessArgsReturn
  \/ PrintTtyHeader
  \/ PrintTtySystem
  \/ PrintTtyAssertFail
  \/ PrintTtySeparator
  \/ RelinquishIgnore
  \/ RelinquishOpen
  \/ RelinquishIoctl
  \/ RelinquishRestore
  \/ RunSystem
  \/ RunReturn
  \/ RunAssertFail
  \/ BlockSemInit
  \/ BlockSemWait
  \/ BlockInterrupted
  \/ BlockKilled

Spec == Init /\ [][Next]_vars

TypeOK ==
  /\ term \in {"running", "exited", "aborted", "signaled"}
  /\ (term = "running") = (pc # "done")
  /\ (term = "exited") = (exitStatus \in 0..255)
  /\ optind \in 1..Argc(argv)

\* ------------------------------------------------------ auxiliary notions
Calls(name) == SelectSeq(syscalls, LAMBDA c : c.call = name)
Made(c) == \E i \in DOMAIN syscalls : syscalls[i] = c
LastCall == syscalls[Len(syscalls)]

\* relinquish_controlling_tty has returned: its last statement succeeded.
RelinquishReturned == Made(Call("sigaction", "SIG_DFL", 0))

\* The dispositions the program has installed, in order.
Installed ==
  LET ok == SelectSeq(syscalls, LAMBDA c : c.call = "sigaction" /\ c.ret = 0)
  IN [i \in DOMAIN ok |-> ok[i].arg]

CommandChildren ==
  { i \in DOMAIN children : children[i].stage = "run_given_command" }

\* Nothing after process_args has happened: no output of the reporter, no
\* call, no child, no descriptor opened, no signal.
NoLaterStage ==
  /\ syscalls = << >>
  /\ children = << >>
  /\ fds = {0, 1, 2}
  /\ controlling_tty = -2
  /\ signals = << >>
  /\ sem = -1

\* An option element made of 'v' characters only.
PureV(t) == IsOptElem(t) /\ \A k \in 2..Len(t) : t[k] = "v"

\* The first option character of t that is not 'v'.
FirstNonV(t) ==
  t[CHOOSE k \in 2..Len(t) : t[k] # "v" /\ \A m \in 2..(k - 1) : t[m] = "v"]

\* The command line begins with -v flags (if any) followed by an option
\* element whose first character other than 'v' is in the set D.
LeadingFlag(D) ==
  \E i \in 1..(Argc(argv) - 1) :
    /\ IsOptElem(argv[i])
    /\ ~PureV(argv[i])
    /\ FirstNonV(argv[i]) \in D
    /\ \A j \in 1..(i - 1) : PureV(argv[j])

HelpText == print_help(<< >>, argv[0])

\* ------------------------------------------------------------------ claims

\* C1: once relinquish_controlling_tty has returned (sigaction, open and
\* ioctl all succeeded) the process has no controlling terminal and SIGHUP
\* has its default disposition, and every child spawned for the given
\* command inherits the default disposition, never "ignore".
C1_DetachedWithDefaultSighup ==
  /\ RelinquishReturned => ctty = "none" /\ sighup = "SIG_DFL"
  /\ \A i \in CommandChildren :
       children[i].sighup = "SIG_DFL" /\ children[i].ctty = "none"

\* C1 witness: the process started with SIGHUP ignored (the tty child
\* inherited that), and the command has been spawned.
C1_Witness ==
  /\ CommandChildren # {}
  /\ \E i \in DOMAIN children :
       children[i].stage = "print_tty" /\ children[i].sighup = "SIG_IGN"

\* C2: when the command exited normally with code N the program's exit
\* status is N, and when it was terminated by signal S the exit status is
\* 128 + S.
C2_ExitStatusOfCommand ==
  (pc = "done" /\ syscalls # << >> /\ LastCall.call = "system"
     /\ LastCall.arg = "COMMAND")
  => /\ \A n \in 0..255 :
          LastCall.ret = n * 256 => term = "exited" /\ exitStatus = n
     /\ \A sig \in 1..126 : \A core \in {0, 128} :
          LastCall.ret = sig + core
            => term = "exited" /\ exitStatus = 128 + sig

\* C2 witness: the command was killed by signal 9 and the program exited
\* with 137.
C2_Witness ==
  /\ pc = "done"
  /\ syscalls # << >>
  /\ LastCall = Call("system", "COMMAND", 9)
  /\ exitStatus = 137

HeaderLine == Line("Terminal is:\n", << >>)
SeparatorLine ==
  Line("------------------------------------------------------------\n\n", << >>)
TtyLine == Line("/dev/pts/N\n", << >>)

\* C3 as stated: when print_tty has returned, standard output is empty
\* without -v, and holds header, terminal line, separator with -v.
C3_SilentWithoutVerbose ==
  pc = "relinquish"
  => stdout = IF opts.verbose THEN << HeaderLine, TtyLine, SeparatorLine >>
              ELSE << >>

\* C3 amended: when print_tty has returned, standard output holds exactly
\* the terminal line written by the tty child without -v, and header,
\* terminal line, separator in that order with -v.
C3_ReporterOutput ==
  pc = "relinquish"
  => stdout = IF opts.verbose THEN << HeaderLine, TtyLine, SeparatorLine >>
              ELSE << TtyLine >>

\* C3 witness: the reporter has finished without -v and the terminal line
\* is on standard output.
C3_Witness ==
  pc = "relinquish" /\ ~opts.verbose /\ stdout = << TtyLine >>

\* Plain words on the command line: neither option elements nor "--".
Words == { i \in 1..(Argc(argv) - 1) : argv[i][1] # "-" }

\* Every option element consists of 'v' characters only.
OnlyVFlags == \A i \in 1..(Argc(argv) - 1) : IsOptElem(argv[i]) => PureV(argv[i])

InvalidArgsText ==
  print_help(<< Line("error: invalid arguments\n", << >>), Line("\n", << >>) >>,
             argv[0])

\* C4: with two or more positional arguments and neither -h nor an
\* unrecognized flag, the program never leaves argument processing except
\* by exit status 1 with "invalid arguments" and the usage on standard
\* error, and no later stage happens.
C4_TwoPositionalsRejected ==
  (Cardinality(Words) >= 2 /\ OnlyVFlags)
  => /\ pc \in {"process_args", "done"}
     /\ NoLaterStage
     /\ stdout = << >>
     /\ pc = "done"
          => term = "exited" /\ exitStatus = 1 /\ stderr = InvalidArgsText

\* C4 witness: -v and two words, rejected.
C4_Witness ==
  /\ pc = "done"
  /\ Cardinality(Words) >= 2
  /\ OnlyVFlags
  /\ opts.verbose
  /\ exitStatus = 1

\* The help exit: status 0, the help text alone on standard output, nothing
\* on standard error, no later stage.
HelpExit ==
  /\ pc = "done"
  /\ term = "exited"
  /\ exitStatus = 0
  /\ stdout = HelpText
  /\ stderr = << >>
  /\ NoLaterStage

\* C5: when -h is given (after at most -v flags) the program never leaves
\* argument processing except by the help exit; and whenever the help text
\* is on standard output the program has made the help exit.
C5_HelpShortCircuits ==
  /\ LeadingFlag({"h"})
       => pc \in {"process_args", "done"} /\ (pc = "done" => HelpExit)
  /\ (stdout # << >> /\ stdout[1] = HelpText[1]) => HelpExit

\* C5 witness: -h after -v, help exit taken.
C5_Witness ==
  LeadingFlag({"h"}) /\ opts.verbose /\ HelpExit

UnknownFlagSeen == stderr # << >> /\ stderr[1] = GetoptDiag(argv[0])

UsageOn(stream) ==
  \E i \in DOMAIN stream : stream[i] = HelpText[1]

\* C6 as stated: after an unrecognized flag the usage text is on standard
\* error, the exit status is 1 and nothing was detached.
C6_UnknownFlagPrintsUsage ==
  UnknownFlagSeen
  => /\ UsageOn(stderr)
     /\ term = "exited" /\ exitStatus = 1
     /\ NoLaterStage

\* C6 amended: an unrecognized flag met before any -h ends the program with
\* exit status 1; standard error holds getopt's own diagnostic only (no
\* usage text), standard output nothing, and no later stage happens.
C6_UnknownFlagExits ==
  /\ UnknownFlagSeen
       => /\ pc = "done" /\ term = "exited" /\ exitStatus = 1
          /\ stderr = << GetoptDiag(argv[0]) >>
          /\ stdout = << >>
          /\ NoLaterStage
  /\ LeadingFlag({"x"})
       => pc \in {"process_args", "done"} /\ (pc = "done" => UnknownFlagSeen)

\* C6 witness: -x after -v, exit status 1.
C6_Witness ==
  LeadingFlag({"x"}) /\ opts.verbose /\ UnknownFlagSeen /\ exitStatus = 1

\* C7: without a command, once detachment has succeeded the program goes to
\* the blocker and never runs a command; once the semaphore is initialised
\* the process ends only when a signal is delivered from outside.
C7_BlocksWithoutCommand ==
  (RelinquishReturned /\ opts.command = NULL)
  => /\ Calls("system") = << Call("system", "tty", 0) >>
     /\ CommandChildren = {}
     /\ pc \in {"main_branch", "sem_wait", "blocked", "done"}
     /\ (Made(Call("sem_init", "0", 0)) /\ signals = << >>) => term = "running"

\* C7 witness: the process is blocked in sem_wait and no signal has arrived.
C7_Witness ==
  pc = "blocked" /\ opts.command = NULL /\ signals = << >> /\ term = "running"

\* C8: when open or ioctl fails the program exits with status 1 at once:
\* the failed call is the last call it makes (no retry, no restore, no
\* command, no blocker) and was made once.
C8_DetachFailureIsFatal ==
  (Made(Call("open", "/dev/tty", -1)) \/ Made(Call("ioctl", "TIOCNOTTY", -1)))
  => /\ pc = "done" /\ term = "exited" /\ exitStatus = 1
     /\ LastCall \in {Call("open", "/dev/tty", -1), Call("ioctl", "TIOCNOTTY", -1)}
     /\ Len(Calls("open")) = 1
     /\ Len(Calls("ioctl")) <= 1
     /\ CommandChildren = {}
     /\ Calls("sem_init") = << >>

\* C8 witness: the ioctl failed and the program exited with status 1.
C8_Witness ==
  /\ Made(Call("ioctl", "TIOCNOTTY", -1))
  /\ opts.command # NULL
  /\ exitStatus = 1

\* C9: in every state where a child has been spawned for the command, the
\* descriptor the detacher opened is not among the descriptors the child
\* inherited and is no longer open in the process.
C9_TtyDescriptorClosedBeforeSpawn ==
  \A i \in CommandChildren :
    controlling_tty \notin children[i].fds /\ controlling_tty \notin fds

\* C10: the dispositions the program installs are, in order, ignore then
\* default; ignore is installed before /dev/tty is opened and is in effect
\* when the ioctl is issued; default is requested only after the ioctl has
\* succeeded; and when the detacher has returned exactly two dispositions
\* have been installed.
C10_SighupSequence ==
  /\ Installed \in { << >>, << "SIG_IGN" >>, << "SIG_IGN", "SIG_DFL" >> }
  /\ \A i \in DOMAIN syscalls :
       /\ syscalls[i].call = "open"
            => \E j \in 1..(i - 1) : syscalls[j] = Call("sigaction", "SIG_IGN", 0)
       /\ (syscalls[i].call = "sigaction" /\ syscalls[i].arg = "SIG_DFL")
            => \E j \in 1..(i - 1) : syscalls[j] = Call("ioctl", "TIOCNOTTY", 0)
  /\ pc \in {"open", "ioctl"} => sighup = "SIG_IGN"
  /\ pc = "restore" => sighup = "SIG_IGN" /\ Installed = << "SIG_IGN" >>
  /\ RelinquishReturned => Installed = << "SIG_IGN", "SIG_DFL" >>

\* C10 witness: a session leader that started with the default disposition
\* has come through the ioctl and restored the default.
C10_Witness ==
  /\ pc = "main_branch"
  /\ Installed = << "SIG_IGN", "SIG_DFL" >>
  /\ \E i \in DOMAIN children :
       children[i].stage = "print_tty" /\ children[i].sighup = "SIG_DFL"
                                       /\ children[i].ctty = "leader"

\* C11: in every state of the running process in which the descriptor the
\* detacher opened is open, the SIGHUP disposition is "ignore".
C11_IgnoreWhileDescriptorOpen ==
  (term = "running" /\ controlling_tty \in fds) => sighup = "SIG_IGN"

\* The calls of the three stages, in program order; the last stage is the
\* runner's or the blocker's.
StageCalls(last) ==
  << "system", "sigaction", "open", "ioctl", "sigaction" >> \o last

CallNames == [i \in DOMAIN syscalls |-> syscalls[i].call]

IsPrefix(s, t) == Len(s) <= Len(t) /\ \A i \in DOMAIN s : s[i] = t[i]

RunnerRan == \E i \in DOMAIN syscalls :
               syscalls[i].call = "system" /\ syscalls[i].arg = "COMMAND"
BlockerRan == Calls("sem_init") # << >>

\* C12: the calls the program makes follow the order reporter, detacher,
\* then runner or blocker, each stage at most once; the command is executed
\* only after the terminal report has completed and the detachment has
\* succeeded; and after a successful detachment exactly one of the runner
\* (command present) and the blocker (command absent) runs, never both.
C12_StagesInOrder ==
  /\ \/ IsPrefix(CallNames, StageCalls(<< "system" >>))
     \/ IsPrefix(CallNames, StageCalls(<< "sem_init", "sem_wait" >>))
  /\ Len(syscalls) >= 1 => syscalls[1].arg = "tty"
  /\ \A i \in DOMAIN syscalls :
       (syscalls[i].call \in {"sem_init"} \/ syscalls[i].arg = "COMMAND")
         => /\ syscalls[1] = Call("system", "tty", 0)
            /\ i = 6
            /\ syscalls[4] = Call("ioctl", "TIOCNOTTY", 0)
            /\ syscalls[5] = Call("sigaction", "SIG_DFL", 0)
  /\ Len(syscalls) >= 2 => stdout # << >> /\ syscalls[1].ret = 0
  /\ ~(RunnerRan /\ BlockerRan)
  /\ RunnerRan => opts.command # NULL
  /\ BlockerRan => opts.command = NULL
  /\ (RelinquishReturned /\ pc # "main_branch") => (RunnerRan \/ BlockerRan)

\* C12 witness: the runner has run after the report and the detachment, and
\* the blocker has not.
C12_Witness ==
  /\ RunnerRan
  /\ ~BlockerRan
  /\ Len(syscalls) = 6
  /\ pc = "done"

\* system("tty") has returned anything but a normal exit with status 0.
TtyFailed ==
  \E i \in DOMAIN syscalls :
    syscalls[i].call = "system" /\ syscalls[i].arg = "tty" /\ syscalls[i].ret # 0

\* C13: when system("tty") does not complete as a normal exit with status
\* 0, the program aborts in print_tty: that call is the only call it makes
\* (no sigaction, no open, no ioctl, no command), nothing is opened, and the
\* separator is never printed.
C13_TtyFailureAborts ==
  TtyFailed
  => /\ pc \in {"print_tty_assert", "done"}
     /\ pc = "done" => term = "aborted" /\ exitStatus = -1
     /\ Len(syscalls) = 1
     /\ fds = {0, 1, 2}
     /\ controlling_tty = -2
     /\ CommandChildren = {}
     /\ sem = -1
     /\ \A i \in DOMAIN stdout : stdout[i] # SeparatorLine

\* C13 witness: tty exited with status 1 under -v with a command given, and
\* the program has aborted.
C13_Witness ==
  /\ syscalls = << Call("system", "tty", 256) >>
  /\ opts.verbose
  /\ opts.command # NULL
  /\ term = "aborted"

\* Wait statuses that are neither an exit nor a termination by signal: a
\* stopped child (SIGSTOP), a continued child, and the -1 of a failed spawn.
OtherShapes == { 19 * 256 + 127, 65535, -1 }

\* C14: when the status of the command is neither "exited" nor "terminated
\* by signal", the runner aborts through its assert: the program never
\* exits, so no exit status (mapped or other) is produced.
C14_OtherStatusAborts ==
  /\ \A s \in OtherShapes : ~(WIFEXITED(s) \/ WIFSIGNALED(s))
  /\ (RunnerRan /\ LastCall.ret \in OtherShapes)
       => /\ pc \in {"run_result", "done"}
          /\ pc = "done"
               => /\ term = "aborted"
                  /\ exitStatus = -1
                  /\ stderr = << Line("Assertion `%s' failed.\n", << "false" >>) >>

\* C14 witness: system(command) returned -1 and the program has aborted.
C14_Witness ==
  /\ RunnerRan
  /\ LastCall.ret = -1
  /\ term = "aborted"

Perror(msg) == Line("%s: %s\n", << msg, "strerror(errno)" >>)

\* C15: when sem_init fails or sem_wait returns an error, the program has
\* reported the cause on standard error and exited with status 1; the
\* failed call is the last call made, and sem_wait is entered at most once.
C15_BlockerFailureIsFatal ==
  /\ Len(Calls("sem_init")) <= 1
  /\ Len(Calls("sem_wait")) <= 1
  /\ Made(Call("sem_init", "0", -1))
       => /\ pc = "done" /\ term = "exited" /\ exitStatus = 1
          /\ LastCall = Call("sem_init", "0", -1)
          /\ stderr = << Perror("sem_init error") >>
          /\ Calls("sem_wait") = << >>
  /\ Made(Call("sem_wait", "sem", -1))
       => /\ pc = "done" /\ term = "exited" /\ exitStatus = 1
          /\ LastCall = Call("sem_wait", "sem", -1)
          /\ stderr = << Perror("sem_wait error") >>

\* C15 witness: the blocked sem_wait was interrupted and the program exited
\* with status 1.
C15_Witness ==
  /\ Made(Call("sem_wait", "sem", -1))
  /\ signals # << >>
  /\ exitStatus = 1

\* The elements of a that getopt scans as flags: option elements before the
\* first "--" when it permutes, else the option elements at the front.
FlagElems(a, perm) ==
  { i \in 1..(Argc(a) - 1) :
      /\ IsOptElem(a[i])
      /\ \A j \in 1..(i - 1) :
           IF perm THEN a[j] # DashDash ELSE IsOptElem(a[j]) }

\* The command line a without its element i.
Remove(a, i) ==
  [k \in 0..(Argc(a) - 2) |-> IF k < i THEN a[k] ELSE a[k + 1]]

\* What argument processing decides for a command line: "h", "?" or
\* "invalid" when it exits, "ok" and the command when it returns.
RECURSIVE Parse(_, _, _, _)
Parse(a, oi, nc, perm) ==
  LET g == getopt(a, oi, nc, perm)
  IN IF g.c = "v" THEN Parse(g.argv, g.optind, g.nextchar, perm)
     ELSE IF g.c \in {"h", "?"} THEN [out |-> g.c, cmd |-> NULL]
     ELSE IF Argc(g.argv) - g.optind >= 2 THEN [out |-> "invalid", cmd |-> NULL]
     ELSE [out |-> "ok",
           cmd |-> IF Argc(g.argv) - g.optind = 1 THEN g.argv[g.optind] ELSE NULL]

Decided == Parse(argv, 1, 0, permute)

\* The program ended inside process_args.
ArgsExit == pc = "done" /\ syscalls = << >>

BailMessage(call) ==
  CASE call = "sigaction" -> "sigaction error"
    [] call = "open" -> "error opening /dev/tty"
    [] call = "ioctl" -> "ioctl error"
    [] call = "sem_init" -> "sem_init error"
    [] call = "sem_wait" -> "sem_wait error"

Ended(t, e, s, err) == [term |-> t, exitStatus |-> e, termsig |-> s, stderr |-> err]

Aborted(expr) ==
  Ended("aborted", -1, 0, << Line("Assertion `%s' failed.\n", << expr >>) >>)

\* How the program has ended when L is the last call it made, as determined
\* by the calls' results and the signals alone.
EndAfter(L) ==
  IF L.call = "system" /\ L.arg = "tty"
    THEN Aborted(IF L.ret % 128 = 0 THEN "WEXITSTATUS(status) == 0"
                 ELSE "WIFEXITED(status)")
  ELSE IF L.call = "system"
    THEN IF L.ret % 128 = 0 THEN Ended("exited", (L.ret \div 256) % 256, 0, << >>)
         ELSE IF L.ret % 128 = 127 THEN Aborted("false")
         ELSE Ended("exited", 128 + (L.ret % 128), 0, << >>)
  ELSE IF L.call = "sem_init" /\ L.ret = 0
    THEN Ended("signaled", -1, signals[Len(signals)], << >>)
  ELSE Ended("exited", 1, 0, << Perror(BailMessage(L.call)) >>)

\* Where the program can be when L is the last call it made and it has not
\* ended.
PcsAfter(L) ==
  IF L.call = "system" /\ L.arg = "tty"
    THEN IF L.ret = 0 THEN {"print_tty_assert", "relinquish"}
         ELSE {"print_tty_assert"}
  ELSE IF L.call = "system" THEN {"run_result"}
  ELSE IF L.ret # 0 /\ L.call # "open" THEN {}
  ELSE IF L.call = "sigaction"
    THEN IF L.arg = "SIG_IGN" THEN {"open"} ELSE {"main_branch"}
  ELSE IF L.call = "open" THEN IF L.ret >= 0 THEN {"ioctl"} ELSE {}
  ELSE IF L.call = "ioctl" THEN {"restore"}
  ELSE IF L.call = "sem_init" THEN {"sem_wait", "blocked"}
  ELSE {}

\* The program may have ended right after the call L.
MayEndAfter(L) ==
  IF L.call = "system" THEN L.arg = "COMMAND" \/ L.ret # 0
  ELSE IF L.call = "sem_init" THEN TRUE
  ELSE IF L.call = "open" THEN L.ret < 0
  ELSE L.ret # 0

\* C16: -v changes nothing but the reporter's output.  (1) Deleting a -v
\* flag from the command line leaves the decision of argument processing
\* and the command unchanged, and what the program does is that decision.
\* (2) After argument processing, where the program is and how it has ended
\* (status, signal, standard error) are determined by the command and the
\* results of the calls made so far, whatever the verbosity; so two runs with
\* the same command and the same results make the same calls (dispositions,
\* open, ioctl, command) and end with the same status.
C16_VerbosityOnlyAffectsReport ==
  /\ \A i \in FlagElems(argv, permute) :
       argv[i] = << "-", "v" >>
         => Parse(Remove(argv, i), 1, 0, permute) = Decided
  /\ pc # "process_args"
       => /\ ArgsExit <=> Decided.out # "ok"
          /\ ~ArgsExit => opts.command = Decided.cmd
          /\ ArgsExit =>
               /\ term = "exited"
               /\ exitStatus = IF Decided.out = "h" THEN 0 ELSE 1
  /\ (pc # "process_args" /\ ~ArgsExit)
       => /\ \A i \in CommandChildren : children[i].command = opts.command
          /\ RunnerRan => opts.command # NULL
          /\ BlockerRan => opts.command = NULL
          /\ IF syscalls = << >>
               THEN pc \in {"print_tty", "print_tty_system"}
             ELSE IF pc = "done"
               THEN /\ MayEndAfter(LastCall)
                    /\ Ended(term, exitStatus, termsig, stderr) = EndAfter(LastCall)
             ELSE /\ pc \in PcsAfter(LastCall)
                  /\ term = "running"
                  /\ stderr = << >>

\* C16 witness: a run with -v whose command was killed by a signal has
\* ended with the mapped status.
C16_Witness ==
  /\ opts.verbose
  /\ pc = "done"
  /\ RunnerRan
  /\ LastCall.ret = 15
  /\ exitStatus = 143
  /\ \E i \in FlagElems(argv, permute) : argv[i] = << "-", "v" >>

\* The option characters other than 'v' among the flags, as <<element,
\* position>> pairs.
Deciders ==
  UNION { { << i, k >> : k \in { m \in 2..Len(argv[i]) : argv[i][m] # "v" } } :
            i \in FlagElems(argv, permute) }

\* The first of them in argv order.
FirstDecider ==
  CHOOSE p \in Deciders :
    \A q \in Deciders : p[1] < q[1] \/ (p[1] = q[1] /\ p[2] <= q[2])

FirstDeciderChar == argv[FirstDecider[1]][FirstDecider[2]]

InvalidArgsSeen == stderr # << >> /\ stderr[1] = InvalidArgsText[1]

\* C17: the first flag character in argv order that is -h or unrecognized
\* decides, whatever positional arguments there are: -h first gives the help
\* exit (status 0), an unrecognized flag first gives exit status 1 with
\* nothing on standard output; the positional-count check, and everything
\* after argument processing, is reached only when no flag is -h or
\* unrecognized.
C17_FirstFlagDecides ==
  /\ Deciders # {}
       => /\ pc \in {"process_args", "done"}
          /\ ~InvalidArgsSeen
          /\ pc = "done"
               => IF FirstDeciderChar = "h"
                    THEN HelpExit
                    ELSE /\ term = "exited" /\ exitStatus = 1
                         /\ stdout = << >>
                         /\ UnknownFlagSeen
  /\ (InvalidArgsSeen \/ pc \notin {"process_args", "done"}) => Deciders = {}
  /\ (pc = "done" /\ syscalls = << >> /\ Deciders = {})
       => /\ InvalidArgsSeen
          /\ exitStatus = 1
          /\ Argc(argv) - optind >= 2

\* C17 witness: -h comes before -x and two words, and the program has made
\* the help exit.
C17_Witness ==
  /\ HelpExit
  /\ Cardinality(Deciders) >= 2
  /\ FirstDeciderChar = "h"
  /\ \E p \in Deciders : argv[p[1]][p[2]] = "x"

====
